---------------------------- MODULE Spec2Model ----------------------------
(***************************************************************************)
(* State-machine model of slurmjobmanager: the queue_job submission        *)
(* protocol of SlurmEnvironment and LocalEnvironment, the squeue status    *)
(* cache of SlurmEnvironment (jobs_info / refresh_info) and cancellation.  *)
(*                                                                         *)
(* Text is modelled as sequences of one-character strings, so that         *)
(* str.split('-') is computed and not assumed.  A squeue listing is the    *)
(* sequence of lines obtained from check_output(...).split('\n').          *)
(***************************************************************************)
EXTENDS Naturals, Integers, Sequences, FiniteSets, TLC

\* Largest number of jobs the scheduler lists in one squeue answer, where the
\* parsing of the listing is in question.
MaxJobs == 2

\* Largest number of jobs it lists where the submission protocol is.
MaxListed == 1

(***************************************************************************)
(* Text                                                                    *)
(***************************************************************************)
JobName == <<"a">>
OtherName == <<"b">>
Names == {JobName, OtherName}

\* Representative lines of `squeue -h -o %t-%j`: running, pending, another
\* state code, a second job, a line with no delimiter and a job whose name
\* holds the delimiter.
JobLines ==
    { <<"R", "-", "a">>,
      <<"P", "D", "-", "a">>,
      <<"C", "G", "-", "a">>,
      <<"P", "D", "-", "b">>,
      <<"a">>,
      <<"R", "-", "a", "-", "b">> }

RECURSIVE SeqsUpTo(_, _)
SeqsUpTo(S, n) ==
    IF n = 0 THEN { << >> }
    ELSE LET shorter == SeqsUpTo(S, n - 1)
         IN  shorter \cup { Append(s, x) : s \in { t \in shorter : Len(t) = n - 1 }, x \in S }

\* check_output(...).decode('utf-8').split('\n'): squeue ends every line with
\* a newline, so the split leaves one empty string after the last job line
\* (and the empty output splits into one empty string).
OutputLines(joblines) == Append(joblines, << >>)

\* What the squeue command can answer: a listing, or a non-zero exit
\* (check_output then raises CalledProcessError).
SqueueFails == [failed |-> TRUE, lines |-> << >>]
SqueueAnswers ==
    { [failed |-> FALSE, lines |-> OutputLines(l)] : l \in SeqsUpTo(JobLines, MaxJobs) }
      \cup { SqueueFails }

\* The answers that list at most n jobs.
Listing(n) == { a \in SqueueAnswers : Len(a.lines) <= n + 1 }

\* Exit statuses of a command run through os.system (the code reads none of
\* them).
ExitCodes == {0, 1}

\* What can happen to open(script_path, 'w') and to each write() the buffered
\* file makes for the writes that follow (a full buffer during the writes,
\* what is left at the close): it goes through, open raises, or the write
\* raises.
WriteOutcomes == {"written", "open_fails", "write_fails"}

\* str.split(d): the fields of s between occurrences of d.
RECURSIVE SplitFrom(_, _, _, _, _)
SplitFrom(s, d, i, cur, acc) ==
    IF i > Len(s) THEN Append(acc, cur)
    ELSE IF s[i] = d THEN SplitFrom(s, d, i + 1, << >>, Append(acc, cur))
    ELSE SplitFrom(s, d, i + 1, Append(cur, s[i]), acc)

Split(s, d) == SplitFrom(s, d, 1, << >>, << >>)

\* `name in lst` on a Python list.
InList(name, lst) == \E i \in 1..Len(lst) : lst[i] = name

(***************************************************************************)
(* SlurmEnvironment: the status cache                                      *)
(***************************************************************************)
\* The dict {} that __init__ stores in self._jobs_info: no keys.
EmptyDict == [k \in {} |-> << >>]

\* Mutant: a table that holds no job is taken for the never-populated cache.
IsEmptyOrHoldsNoJob(info) ==
    DOMAIN info = {} \/ \A k \in DOMAIN info : info[k] = << >>

\* `self._jobs_info == {}`
IsEmptyDict(info) == DOMAIN info = {}

\* categories.get(status, 'unknown')
Category(status) ==
    IF status = <<"R">> THEN "running"
    ELSE IF status = <<"P", "D">> THEN "pending"
    ELSE "unknown"

\* The loop of refresh_info over the listing's lines, from line i on, with
\* the table built so far.  A line that does not split in exactly two fields
\* makes the tuple unpacking raise ValueError.
RECURSIVE ParseFrom(_, _, _)

\* status, jobname = tuple(parts); _jobs_info[category].append(jobname)
ParseParts(lines, i, table, parts) ==
    IF Len(parts) # 2 THEN [ok |-> FALSE, info |-> table]
    ELSE ParseFrom(lines, i + 1,
                   [table EXCEPT ![Category(parts[1])] = Append(@, parts[2])])

ParseFrom(lines, i, table) ==
    IF i > Len(lines) THEN [ok |-> TRUE, info |-> table]
    ELSE IF lines[i] = << >> THEN ParseFrom(lines, i + 1, table)
    ELSE ParseParts(lines, i, table, Split(lines[i], "-"))

NewTable == [running |-> << >>, pending |-> << >>, unknown |-> << >>]

\* The for loop of refresh_info over a whole listing.
ParseLines(lines) == ParseFrom(lines, 1, NewTable)

\* ParseLines of every listing squeue can answer, computed once.
ParseTable == [l \in { a.lines : a \in SqueueAnswers } |-> ParseLines(l)]
Parse(lines) == IF lines \in DOMAIN ParseTable THEN ParseTable[lines] ELSE ParseLines(lines)

\* Mutant: the table built so far is stored even when a line raised.
AssignPartial(info, parsed) == [ok |-> parsed.ok, info |-> parsed.info]

\* refresh_info: runs squeue, parses, and assigns self._jobs_info last.
\* Returns the new value of self._jobs_info and whether the call raised.
\* self._jobs_info = _jobs_info, reached only when no line raised.
Assign(info, parsed) ==
    IF parsed.ok THEN [ok |-> TRUE, info |-> parsed.info]
    ELSE [ok |-> FALSE, info |-> info]

\* Mutant: the listing is parsed into the table already cached.
refresh_info_merging(info, answer) ==
    IF answer.failed THEN [ok |-> FALSE, info |-> info]
    ELSE Assign(info, ParseFrom(answer.lines, 1,
                                IF DOMAIN info = {} THEN NewTable ELSE info))

refresh_info(info, answer) ==
    IF answer.failed THEN [ok |-> FALSE, info |-> info]
    ELSE Assign(info, Parse(answer.lines))

\* jobs_info: refreshes only when the cache is the empty dict.  events is
\* the list of external commands the call ran.
Refreshed(r) == [ok |-> r.ok, info |-> r.info, events |-> <<"squeue">>]

\* Mutant: the listing is fetched again on every call.
jobs_info_refreshing(info, answer) == Refreshed(refresh_info(info, answer))

jobs_info(info, answer) ==
    IF IsEmptyDict(info) THEN Refreshed(refresh_info(info, answer))
    ELSE [ok |-> TRUE, info |-> info, events |-> << >>]


(***************************************************************************)
(* Job: the caller-supplied predicates and mutators                        *)
(***************************************************************************)
\* A job object is the value of its four predicates.
JobStates == [blocked : BOOLEAN, ready : BOOLEAN, complete : BOOLEAN, failed : BOOLEAN]

\* reset(): clears the completion and failure state of the job.
reset(j) == [j EXCEPT !.complete = FALSE, !.failed = FALSE]

\* SlurmJob.pending / running / unknown: membership of name() in the
\* environment's list; each goes through jobs_info.
Member(key, r) ==
    [ok |-> r.ok, info |-> r.info, events |-> r.events,
     value |-> IF r.ok THEN InList(JobName, r.info[key]) ELSE FALSE]

StatusOf(key, info, answer) == Member(key, jobs_info(info, answer))

\* SlurmJob.in_progress: self.pending() or self.running() (running is
\* evaluated only when pending is false).
OrRunning(p, answer) ==
    IF ~p.ok \/ p.value THEN p
    ELSE [StatusOf("running", p.info, answer) EXCEPT !.events = p.events \o @]

\* Mutant: a job listed under any other state code counts as in progress.
in_progress_counting_unknown(info, answer) ==
    OrRunning(StatusOf("unknown", info, answer), answer)

in_progress(info, answer) == OrRunning(StatusOf("pending", info, answer), answer)


(***************************************************************************)
(* The batch script                                                        *)
(***************************************************************************)
\* What slurm_args(), slurm_opts() and slurm_command() of the job can say when
\* create() writes them to the script (its directives and command); NoScript
\* stands for those of a call that writes no script.
Directives == {"v1", "v2"}
NoScript == "none"

\* The directives and command of a job whose configuration is not edited.
FixedDirectives == {"v1"}

\* The text create() writes for each, as the pieces in which it can reach
\* the file: the buffered file hands the text to write() one full buffer at
\* a time and what is left at the close, and a write() can put in the file
\* a part only of what it was given (the next one goes on from there, or
\* raises).  The pieces are cut where a write() can end: within the start
\* the two texts share (the '#!/bin/bash' line and on) and, in the second
\* text, which is the longer one, where the first one ends.
Script(directives) ==
    CASE directives = "v1" -> <<"#!", "v1">>
      [] directives = "v2" -> <<"#!", "v2", "v2+">>
      [] OTHER -> << >>

\* The text of a file that open(path, 'w') made or emptied and that no write
\* has reached since (and the text of the file while there is none).
Truncated == << >>

\* The bytes the file system fills in where a write lands beyond the end of
\* the file.
Hole == "nul"

\* The text of a file holding `text` after write() put `pieces` at the
\* offset `off` of the handle: what was there before the offset stays (the
\* file is filled up to the offset when it is shorter), and so does what was
\* there beyond the pieces.
Put(text, pieces, off) ==
    IF pieces = << >> THEN text
    ELSE [i \in 1..(IF Len(text) > off + Len(pieces) THEN Len(text) ELSE off + Len(pieces)) |->
             IF off < i /\ i <= off + Len(pieces) THEN pieces[i - off]
             ELSE IF i <= Len(text) THEN text[i]
             ELSE Hole]

\* The pieces of the script that a handle at offset `off` has still to write
\* and the first n of them.
Rest(directives, off) == Len(Script(directives)) - off
Pieces(directives, off, n) == SubSeq(Script(directives), off + 1, off + n)

(***************************************************************************)
(* queue_job, one statement at a time                                      *)
(*                                                                         *)
(* A call in flight is a record c: the statement it is at (pc: the index   *)
(* i in the statement list of the method, the part of that statement and,  *)
(* in the writes of create(), the offset off of the file handle),          *)
(* the job, the cache, the script file (exists, text), the commands and    *)
(* mutators run so far (events), the exit statuses os.system returned      *)
(* (exits), the value of every predicate the call has read, in reading     *)
(* order (saw), the listing it has parsed (parsed) and the outcome         *)
(* (result), which is "running" until the call raises or returns.          *)
(***************************************************************************)
Rejections == {"Blocked", "NotReady", "AlreadyComplete", "AlreadyInProgress", "AlreadyFailed"}
ExecutionErrors == {"StatusQueryError", "OSError"}

At(i, part) == [i |-> i, part |-> part, off |-> 0]
Done == At(0, "done")

Raise(c, err) == [c EXCEPT !.result = err]
Return(c) == [c EXCEPT !.result = "returned"]
Did(c, ev) == [c EXCEPT !.events = Append(@, ev)]
\* The call has read the predicate `name` and got v.
Read(c, name, v) == [c EXCEPT !.saw = Append(@, <<name, v>>)]
\* The call goes on with another part of the statement it is at, or with the
\* next statement.
Goto(c, part) == [c EXCEPT !.pc = [@ EXCEPT !.part = part]]
Pass(c) == [c EXCEPT !.pc = At(@.i + 1, "enter")]

\* job.reset()
DoReset(c) == [Did(c, "reset") EXCEPT !.job = reset(c.job)]

\* os.system(cmd): runs the command; the returned exit status is discarded.
System(c, cmd, rc) == [Did(c, cmd) EXCEPT !.exits = Append(@, rc)]

\* Mutant: force overrides the blocked check.
CheckBlockedUnlessForced(c, force) ==
    IF c.job.blocked /\ ~force THEN Raise(c, "Blocked") ELSE Pass(c)

\* if job.blocked(): raise (force is not consulted)
CheckBlocked(c, force) ==
    IF c.job.blocked THEN Raise(c, "Blocked") ELSE Pass(c)

\* Mutant: force overrides the ready check.
CheckReadyUnlessForced(c, force) ==
    IF ~c.job.ready /\ ~force THEN Raise(c, "NotReady") ELSE Pass(c)

\* if not job.ready(): raise (force is not consulted)
CheckReady(c, force) ==
    IF ~c.job.ready THEN Raise(c, "NotReady") ELSE Pass(c)

\* Mutant: the job is reset before the unforced call is refused.
CheckCompleteResetThenRaise(c, force) ==
    IF c.job.complete
    THEN IF force THEN Goto(c, "reset") ELSE Raise(DoReset(c), "AlreadyComplete")
    ELSE Pass(c)

\* if job.complete(): go on to job.reset() when forced, else raise
CheckComplete(c, force) ==
    IF c.job.complete
    THEN IF force THEN Goto(c, "reset") ELSE Raise(c, "AlreadyComplete")
    ELSE Pass(c)

\* Mutant: the cancelled name is dropped from the cached table.
cancel_by_name_evicting(c, name, rc) ==
    [System(c, "scancel", rc) EXCEPT
        !.info = [k \in DOMAIN c.info |-> SelectSeq(c.info[k], LAMBDA n : n # name)]]

\* SlurmEnvironment.cancel_by_name: os.system('scancel -n name')
cancel_by_name(c, name, rc) == System(c, "scancel", rc)

\* SlurmJob.cancel -> SlurmEnvironment.cancel_job -> cancel_by_name(job.name())
cancel_job(c, rc) == cancel_by_name(c, JobName, rc)

\* A status query that ran squeue and returned has parsed the answer.
Parsed(events, result) == InList("squeue", events) /\ result # "StatusQueryError"

\* The listing a status query s parsed, when squeue answered `answer` to it.
ParsedBy(s, answer) ==
    IF InList("squeue", s.events) /\ s.ok THEN answer.lines ELSE << >>

\* The call after job.in_progress() answered s (or raised): the cache and
\* the squeue run are those of the query, and its answer is a value read.
Queried(c, s, answer) ==
    [c EXCEPT !.info = s.info, !.events = @ \o s.events,
              !.parsed = ParsedBy(s, answer),
              !.saw = IF s.ok THEN Append(@, <<"in_progress", s.value>>) ELSE @]

\* if job.in_progress(): go on to job.cancel() when forced, else raise
InProgressBranch(c, s, force) ==
    IF ~s.ok THEN Raise(c, "StatusQueryError")
    ELSE IF s.value
         THEN IF force THEN Goto(c, "cancel") ELSE Raise(c, "AlreadyInProgress")
         ELSE Pass(c)

CheckInProgress(c, force, answer) ==
    InProgressBranch(Queried(c, in_progress(c.info, answer), answer),
                     in_progress(c.info, answer), force)

\* Mutant: a forced call lets a failed job pass without resetting it.
CheckFailedNoReset(c, force) ==
    IF c.job.failed /\ ~force THEN Raise(c, "AlreadyFailed") ELSE Pass(c)

\* Mutant: a failed job is refused even when forced.
CheckFailedIgnoringForce(c, force) ==
    IF c.job.failed THEN Raise(c, "AlreadyFailed") ELSE Pass(c)

\* if job.failed(): go on to job.reset() when forced, else raise
CheckFailed(c, force) ==
    IF c.job.failed
    THEN IF force THEN Goto(c, "reset") ELSE Raise(c, "AlreadyFailed")
    ELSE Pass(c)

\* job.setup()
Setup(c) == Did(c, "setup")

\* open(script_path, 'w'): makes the file, or empties the one in place; the
\* handle is at the start of the file.
Open(c, write) ==
    IF write = "open_fails" THEN Raise(c, "OSError")
    ELSE Goto([Did(c, "open") EXCEPT !.exists = TRUE, !.text = Truncated], "write")

\* One write() of the buffered file that goes through: the next n pieces of
\* the script go to the file at the offset of the handle, which moves on by
\* as much.
Flush(c, directives, n) ==
    [c EXCEPT !.text = Put(@, Pieces(directives, c.pc.off, n), c.pc.off),
              !.pc = [@ EXCEPT !.off = @ + n]]

\* The writes of create() and the close of the file, one write() at a time.
\* A write() that goes through has put a full buffer in the file, or a part
\* of what it was given, and the call goes on writing; or it has put there
\* all that was left, and the file is closed.  A write() that raises has put
\* nothing there: the with block is left, which closes the file.  (Where the
\* file may be no larger than the first piece, the first write() puts that
\* piece in the file, the next one raises and so does the one of the close:
\* the call ends with OSError and the file holds the start of the script.)
Write(c, write, directives, n) ==
    IF write = "write_fails" THEN Goto(c, "close")
    ELSE IF n < Rest(directives, c.pc.off) THEN Flush(c, directives, n)
    ELSE Pass(Did(Flush(c, directives, n), "write"))

\* The close of the file after a write() raised: it flushes the buffer once
\* more, so that a write() that goes through now puts more of the script in
\* the file; when no write() goes through any more the file is closed and
\* the error is raised to the caller.
Close(c, write, directives, n) ==
    IF write = "write_fails" THEN Raise(c, "OSError")
    ELSE Flush(c, directives, n)

\* SlurmJob.create, the statement the call is at: setup(), then
\* open(script_path, 'w'), then the writes and the close.
create(c, write, directives, n) ==
    IF c.pc.part = "setup" THEN Goto(Setup(c), "open")
    ELSE IF c.pc.part = "open" THEN Open(c, write)
    ELSE IF c.pc.part = "write" THEN Write(c, write, directives, n)
    ELSE Close(c, write, directives, n)

\* Mutant: the script is generated on every call.
CreateAlways(c) == Goto(c, "setup")

\* if not os.path.exists(slurm_script_path): go on to job.create()
CreateIfMissing(c) ==
    IF ~c.exists THEN Goto(c, "setup") ELSE Pass(c)

\* os.system('sbatch path'); what is left is the return
Sbatch(c, rc) == Goto(System(c, "sbatch", rc), "return")

\* os.system(job.command()); what is left is the return
Command(c, rc) == Goto(System(c, "command", rc), "return")

\* The statement `name` of queue_job, from its start: the predicate it tests
\* is read from the job (the script's existence from the file system) as it
\* is at that moment.
Enter(name, c, force, answer, rc) ==
    CASE name = "blocked" -> CheckBlocked(Read(c, "blocked", c.job.blocked), force)
      [] name = "ready" -> CheckReady(Read(c, "ready", c.job.ready), force)
      [] name = "complete" -> CheckComplete(Read(c, "complete", c.job.complete), force)
      [] name = "in_progress" -> CheckInProgress(c, force, answer)
      [] name = "failed" -> CheckFailed(Read(c, "failed", c.job.failed), force)
      [] name = "create" -> CreateIfMissing(Read(c, "exists", c.exists))
      [] name = "sbatch" -> Sbatch(c, rc)
      [] name = "setup" -> Pass(Setup(c))
      [] name = "command" -> Command(c, rc)

\* One step of the call c, which is at statement `name`: the statement from
\* its start, or the part of it the call has come to (the reset or the
\* cancellation of a forced call, a statement of create(), the return).
Step(name, c, force, answer, write, rc, directives, n) ==
    IF c.pc.part = "enter" THEN Enter(name, c, force, answer, rc)
    ELSE IF c.pc.part = "cancel" THEN Goto(cancel_job(c, rc), "reset")
    ELSE IF c.pc.part = "reset" THEN Pass(DoReset(c))
    ELSE IF c.pc.part = "return" THEN Return(c)
    ELSE create(c, write, directives, n)

\* Mutant: the failed check is made before the in-progress check.
SlurmStepsFailedFirst ==
    <<"blocked", "ready", "complete", "failed", "in_progress", "create", "sbatch">>

\* The statements of SlurmEnvironment.queue_job, in source order.
SlurmSteps == <<"blocked", "ready", "complete", "in_progress", "failed", "create", "sbatch">>

\* The statements of LocalEnvironment.queue_job, in source order.
LocalSteps == <<"blocked", "ready", "complete", "failed", "setup", "command">>

\* SlurmJob.create() called by the caller is the one statement, entered at
\* setup().
CreateSteps == <<"create">>

\* A method whose last statement is done returns.
Ends(c, steps) ==
    IF c.result = "running" /\ c.pc.i > Len(steps) THEN Return(c) ELSE c

\* The squeue answers to draw for the step the call c is about to take, out
\* of those the scheduler can give: only the in-progress check asks.
AnswersAt(steps, c, answers) ==
    IF steps[c.pc.i] = "in_progress" /\ c.pc.part = "enter"
    THEN answers ELSE { SqueueFails }

\* Likewise the outcomes of open and of a write() with the number of pieces
\* it puts in the file (only create() opens and writes: a write() that goes
\* through puts one piece at least, one that raises none) and the exit
\* statuses (only scancel, sbatch and the local command exit).
WritesAt(c, directives) ==
    IF c.pc.part = "open" THEN { <<"written", 0>>, <<"open_fails", 0>> }
    ELSE IF c.pc.part \in {"write", "close"}
    THEN { <<"written", n>> : n \in 1..Rest(directives, c.pc.off) }
           \cup { <<"write_fails", 0>> }
    ELSE { <<"written", 0>> }

ExitsAt(steps, c) ==
    IF c.pc.part = "cancel" \/ (c.pc.part = "enter" /\ steps[c.pc.i] \in {"sbatch", "command"})
    THEN ExitCodes ELSE {0}

\* Every way the call c can take its next step: for every answer of squeue,
\* every outcome of open and of a write(), and every exit status of the
\* command run.
Steps(steps, c, force, directives, answers) ==
    { Ends(Step(steps[c.pc.i], c, force, answer, w[1], rc, directives, w[2]), steps) :
        answer \in AnswersAt(steps, c, answers), w \in WritesAt(c, directives),
        rc \in ExitsAt(steps, c) }

(***************************************************************************)
(* State                                                                   *)
(***************************************************************************)
VARIABLES
    backend,        \* which Environment the caller constructed
    job,            \* the job object: the current value of its predicates
    _jobs_info,     \* SlurmEnvironment._jobs_info, the status cache
    script_exists,  \* os.path.exists(job.slurm_script_path())
    script_text,    \* what the script file holds
    lastCall,       \* the call in flight, or the last one and how it ended
    listed,         \* how many jobs the scheduler lists at most
    scheduler,      \* how many jobs named as the job the Slurm queue holds
    inflight        \* the queue_job call of each concurrent invocation

vars == <<backend, job, _jobs_info, script_exists, script_text, lastCall,
          listed, scheduler, inflight>>

\* The answers to draw for a call made with cache `info`: squeue is run only
\* when the cache is the empty dict, so otherwise one answer stands for all.
AnswersFor(info) == IF DOMAIN info = {} THEN Listing(listed) ELSE { SqueueFails }

\* Two invocations of the program, each with its own SlurmEnvironment.
Invocations == {"first", "second"}

\* Where an invocation stands: the statement of queue_job it is at (pc), its
\* force argument, its environment's cache, what its calls ran so far, what
\* the current call has read and how it ended, how many calls it has made.
NotStarted ==
    [pc |-> At(1, "enter"), force |-> FALSE, info |-> EmptyDict, events |-> << >>,
     exits |-> << >>, saw |-> << >>, result |-> "running", calls |-> 1]

\* The concurrent invocations are not part of the sequential specifications.
NoRace == scheduler = 0 /\ inflight = [p \in Invocations |-> NotStarted]

NoFlags == [blocked |-> FALSE, ready |-> FALSE, complete |-> FALSE, failed |-> FALSE]
Predicates == {"blocked", "ready", "complete", "failed"}

\* The job names a cache holds, in any category.
NamesIn(info) == { n \in Names : \E k \in DOMAIN info : InList(n, info[k]) }

\* The record of a call: the operation, its force argument, the statement it
\* is at (Done when it is over), the cache when it started (whether
\* populated, and whether it held the job), how it ended ("running" while it
\* is in flight), what it ran, and what it returned; parsed is the squeue
\* listing the call parsed to the end (no lines when it ran no squeue or
\* raised), output what squeue printed to a refresh_info call (no lines when
\* squeue failed, or when the record does not keep them), directives what
\* the job's directives and command are during a queue_job or create call,
\* saw the predicates the call read, in reading order, quiet whether no other
\* process has changed the job or the script since the call started, and
\* untouched the job's predicates as they are apart from what the call itself
\* did to them: those of the start of the call, with the changes other
\* processes made since.
Call(op, force, info, result, events, exits, ret, parsed, output) ==
    [op |-> op, force |-> force, pc |-> Done, untouched |-> NoFlags,
     prePopulated |-> DOMAIN info # {}, preHeld |-> JobName \in NamesIn(info),
     result |-> result, events |-> events, exits |-> exits, ret |-> ret,
     parsed |-> parsed, output |-> output, directives |-> NoScript,
     saw |-> << >>, quiet |-> TRUE]

NoCall == Call("none", FALSE, EmptyDict, "returned", << >>, << >>, << >>, << >>, << >>)

\* A call of queue_job or create that has just been made, on job j with
\* cache `info`, about to take its first step at `part` of its first
\* statement.
StartCall(op, force, j, info, directives, part) ==
    [Call(op, force, info, "running", << >>, << >>, << >>, << >>, << >>) EXCEPT
        !.pc = At(1, part), !.untouched = j, !.directives = directives]

\* The call as the record the statements work on, and the call's record
\* after a step left c.
Working(call, j, info, exists, text) ==
    [pc |-> call.pc, job |-> j, info |-> info, exists |-> exists, text |-> text,
     events |-> call.events, exits |-> call.exits, result |-> call.result,
     saw |-> call.saw, parsed |-> call.parsed]

After(call, c) ==
    [call EXCEPT !.pc = IF c.result = "running" THEN c.pc ELSE Done,
                 !.events = c.events, !.exits = c.exits, !.result = c.result,
                 !.saw = c.saw, !.parsed = c.parsed]

\* A call of queue_job or create is in flight; the program, single-threaded,
\* makes no other call meanwhile.
InFlight == lastCall.result = "running"

\* The lines check_output returned to refresh_info.
Heard(answer) == IF answer.failed THEN << >> ELSE answer.lines

Init ==
    /\ backend \in {"slurm", "local"}
    /\ job \in JobStates
    /\ _jobs_info = EmptyDict
    /\ script_exists \in BOOLEAN
    /\ script_text \in IF script_exists THEN { Script(d) : d \in FixedDirectives } ELSE {Truncated}
    /\ lastCall = NoCall
    /\ listed = MaxListed
    /\ NoRace

(***************************************************************************)
(* queue_job and create, on either backend                                 *)
(***************************************************************************)
\* The statement list of the method the call runs.
Program(call) ==
    IF call.op = "create" THEN CreateSteps
    ELSE IF backend = "local" THEN LocalSteps ELSE SlurmSteps

\* The call takes a step, in every way it can.
Takes(call) ==
    \E c \in Steps(Program(call), Working(call, job, _jobs_info, script_exists, script_text),
                   call.force, call.directives, AnswersFor(_jobs_info)) :
        /\ job' = c.job
        /\ _jobs_info' = c.info
        /\ script_exists' = c.exists
        /\ script_text' = c.text
        /\ lastCall' = After(call, c)

\* SlurmEnvironment.queue_job(job, force) / SlurmJob.run(force) is called, on
\* a job whose directives and command are one of `texts`, and evaluates
\* job.blocked().
QueueJobSlurmWith(texts) ==
    /\ backend = "slurm" /\ ~InFlight
    /\ \E force \in BOOLEAN, directives \in texts :
         Takes(StartCall("queue_job", force, job, _jobs_info, directives, "enter"))
    /\ UNCHANGED <<backend, listed, scheduler, inflight>>

QueueJobSlurm == QueueJobSlurmWith(FixedDirectives)

\* LocalEnvironment.queue_job(job, force) / LocalJob.run(force) is called and
\* evaluates job.blocked().
QueueJobLocal ==
    /\ backend = "local" /\ ~InFlight
    /\ \E force \in BOOLEAN :
         Takes(StartCall("queue_job", force, job, _jobs_info, NoScript, "enter"))
    /\ UNCHANGED <<backend, listed, scheduler, inflight>>

\* SlurmJob.create() is called by the caller and calls setup(): the script
\* is written whether or not a file is there.
CreateWith(texts) ==
    /\ backend = "slurm" /\ ~InFlight
    /\ \E directives \in texts :
         Takes(StartCall("create", FALSE, job, _jobs_info, directives, "setup"))
    /\ UNCHANGED <<backend, listed, scheduler, inflight>>

CreateScript == CreateWith(FixedDirectives)

\* The call in flight executes the statement it is at.
Proceed ==
    /\ InFlight
    /\ Takes(lastCall)
    /\ UNCHANGED <<backend, listed, scheduler, inflight>>

(***************************************************************************)
(* The other operations of the cluster backend                             *)
(***************************************************************************)
\* What one refresh_info call on cache `info` comes to when squeue answers
\* `answer`: the cache it leaves, whether it returned, the lines it parsed
\* and the lines the call's record keeps (those squeue printed, when `heard`
\* is set).
RefreshOutcome(info, answer, heard) ==
    [r |-> refresh_info(info, answer), lines |-> answer.lines,
     output |-> IF heard THEN Heard(answer) ELSE << >>]

\* A call that raised has parsed no listing to the end.
Settled(x) == IF x.r.ok THEN x ELSE [x EXCEPT !.lines = << >>]

Outcome(ok) == IF ok THEN "returned" ELSE "StatusQueryError"

\* SlurmEnvironment.refresh_info(), for every answer squeue can give.
RefreshWith(heard) ==
    /\ backend = "slurm" /\ ~InFlight
    /\ \E x \in { Settled(RefreshOutcome(_jobs_info, answer, heard)) :
                     answer \in Listing(listed) } :
         /\ _jobs_info' = x.r.info
         /\ lastCall' = Call("refresh_info", FALSE, _jobs_info, Outcome(x.r.ok),
                             <<"squeue">>, << >>, << >>, x.lines, x.output)
    /\ UNCHANGED <<backend, job, script_exists, script_text>>
    /\ UNCHANGED <<listed, scheduler, inflight>>

RefreshInfo == RefreshWith(FALSE)

\* pending_jobs / running_jobs / unknown_jobs: jobs_info()[key]
ListAccessor(op, key) ==
    /\ backend = "slurm" /\ ~InFlight
    /\ \E answer \in AnswersFor(_jobs_info) :
         \E r \in {jobs_info(_jobs_info, answer)} :
             /\ _jobs_info' = r.info
             /\ lastCall' = Call(op, FALSE, _jobs_info, Outcome(r.ok), r.events, << >>,
                                 IF r.ok THEN r.info[key] ELSE << >>,
                                 ParsedBy(r, answer), << >>)
    /\ UNCHANGED <<backend, job, script_exists, script_text>>
    /\ UNCHANGED <<listed, scheduler, inflight>>

PendingJobs == ListAccessor("pending_jobs", "pending")
RunningJobs == ListAccessor("running_jobs", "running")
UnknownJobs == ListAccessor("unknown_jobs", "unknown")

\* in_progress_jobs: self.pending_jobs() + self.running_jobs()
InProgressJobs ==
    /\ backend = "slurm" /\ ~InFlight
    /\ \E answer \in AnswersFor(_jobs_info) :
         LET p == jobs_info(_jobs_info, answer)
             q == IF p.ok THEN jobs_info(p.info, answer) ELSE p
         IN  /\ _jobs_info' = q.info
             /\ lastCall' = Call("in_progress_jobs", FALSE, _jobs_info, Outcome(q.ok),
                                 IF p.ok THEN p.events \o q.events ELSE p.events, << >>,
                                 IF q.ok THEN p.info["pending"] \o q.info["running"]
                                 ELSE << >>,
                                 ParsedBy([p EXCEPT !.ok = q.ok], answer), << >>)
    /\ UNCHANGED <<backend, job, script_exists, script_text>>
    /\ UNCHANGED <<listed, scheduler, inflight>>

\* SlurmJob.in_progress()
JobInProgress ==
    /\ backend = "slurm" /\ ~InFlight
    /\ \E answer \in AnswersFor(_jobs_info) :
         \E s \in {in_progress(_jobs_info, answer)} :
             /\ _jobs_info' = s.info
             /\ lastCall' = Call("in_progress", FALSE, _jobs_info, Outcome(s.ok),
                                 s.events, << >>, s.value, ParsedBy(s, answer), << >>)
    /\ UNCHANGED <<backend, job, script_exists, script_text>>
    /\ UNCHANGED <<listed, scheduler, inflight>>

\* SlurmEnvironment.cancel_by_name(name); cancel_job(job) and SlurmJob.cancel()
\* call it with job.name().
CancelByName ==
    /\ backend = "slurm" /\ ~InFlight
    /\ \E name \in Names, rc \in ExitCodes :
         \E c \in {cancel_by_name(Working(NoCall, job, _jobs_info, script_exists,
                                          script_text), name, rc)} :
             /\ _jobs_info' = c.info
             /\ lastCall' = Call("cancel_by_name", FALSE, _jobs_info,
                                 "returned", c.events, c.exits, name, << >>, << >>)
    /\ UNCHANGED <<backend, job, script_exists, script_text>>
    /\ UNCHANGED <<listed, scheduler, inflight>>

(***************************************************************************)
(* Operations of the local backend                                         *)
(***************************************************************************)
\* The status and cancellation methods of LocalJob and LocalEnvironment.
LocalOps ==
    { "LocalJob.pending", "LocalJob.running", "LocalJob.in_progress", "LocalJob.cancel",
      "LocalEnvironment.pending_jobs", "LocalEnvironment.running_jobs",
      "LocalEnvironment.in_progress_jobs", "LocalEnvironment.cancel_by_name",
      "LocalEnvironment.cancel_job" }

\* What each of them does: LocalJob.pending returns False, every other one
\* raises RuntimeError.
LocalOutcome(op) ==
    IF op = "LocalJob.pending" THEN [result |-> "returned", ret |-> FALSE]
    ELSE [result |-> "Unsupported", ret |-> << >>]

LocalOperation ==
    /\ backend = "local" /\ ~InFlight
    /\ \E op \in LocalOps :
         lastCall' = Call(op, FALSE, EmptyDict, LocalOutcome(op).result,
                          << >>, << >>, LocalOutcome(op).ret, << >>, << >>)
    /\ UNCHANGED <<backend, job, _jobs_info, script_exists, script_text>>
    /\ UNCHANGED <<listed, scheduler, inflight>>

(***************************************************************************)
(* The other processes: the job's own run, other invocations of the        *)
(* program, the caller's dependencies.  They change what the predicates of *)
(* the job report and write the job's script, between two calls of the     *)
(* program and between any two statements of a call in flight (the call    *)
(* waits in squeue, scancel, sbatch and the local command, and calls the   *)
(* caller's own code in every predicate, in setup() and in reset()), the   *)
(* write() calls of create() included.                                     *)
(***************************************************************************)
\* The call's record after another process changed the predicate p to v,
\* and after one wrote to the script: a call in flight is no longer alone,
\* and what a call that is over left behind is no longer there to see.
Disturbed(call, p, v) ==
    IF call.result = "running"
    THEN [call EXCEPT !.untouched = [@ EXCEPT ![p] = v], !.quiet = FALSE]
    ELSE NoCall

Overtaken(call) ==
    IF call.result = "running" THEN [call EXCEPT !.quiet = FALSE] ELSE NoCall

\* One predicate of the job changes its value.
JobChanges ==
    /\ \E p \in Predicates :
         /\ job' = [job EXCEPT ![p] = ~@]
         /\ lastCall' = Disturbed(lastCall, p, ~job[p])
    /\ UNCHANGED <<backend, _jobs_info, script_exists, script_text>>
    /\ UNCHANGED <<listed, scheduler, inflight>>

\* Another process, in its own create(), opens the script for writing: the
\* file is there, and empty.
ScriptOpened ==
    /\ backend = "slurm"
    /\ script_exists' = TRUE
    /\ script_text' = Truncated
    /\ lastCall' = Overtaken(lastCall)
    /\ UNCHANGED <<backend, job, _jobs_info, listed, scheduler, inflight>>

\* A write() of one of the other processes that have the script open, each
\* in its own create() for a job whose directives and command are one of
\* `texts`: n pieces of its script that it had still to write go to the file
\* at the offset of its handle (a full buffer during its writes, what is
\* left at its close, or a part of either).  Any number of processes have
\* the file open, some since before the program started, each with its
\* handle where its own writes have brought it: any pieces of a script that
\* follow one another can go to the file at their offset at any time.
ScriptWrittenWith(texts) ==
    /\ backend = "slurm" /\ script_exists
    /\ \E directives \in texts :
         \E off \in 0..(Len(Script(directives)) - 1) :
             \E n \in 1..Rest(directives, off) :
                 script_text' = Put(script_text, Pieces(directives, off, n), off)
    /\ lastCall' = Overtaken(lastCall)
    /\ UNCHANGED <<backend, job, _jobs_info, script_exists, listed, scheduler, inflight>>

ScriptWritten == ScriptWrittenWith(FixedDirectives)

Next ==
    \/ QueueJobSlurm
    \/ QueueJobLocal
    \/ CreateScript
    \/ Proceed
    \/ RefreshInfo
    \/ PendingJobs
    \/ RunningJobs
    \/ UnknownJobs
    \/ InProgressJobs
    \/ JobInProgress
    \/ CancelByName
    \/ LocalOperation
    \/ JobChanges
    \/ ScriptOpened
    \/ ScriptWritten

Spec == Init /\ [][Next]_vars

(***************************************************************************)
(* The batch script: queue_job and create calls on a cluster job whose     *)
(* directives and command the caller edits between calls, other processes  *)
(* writing the script with either.  No branch on the job's status touches  *)
(* the script, so the scheduler lists one job fewer here.                  *)
(***************************************************************************)
InitScript ==
    /\ backend = "slurm"
    /\ job \in JobStates
    /\ _jobs_info = EmptyDict
    /\ script_exists \in BOOLEAN
    /\ script_text \in IF script_exists THEN { Script(d) : d \in Directives } ELSE {Truncated}
    /\ lastCall = NoCall
    /\ listed = MaxListed - 1
    /\ NoRace

QueueJobEdited == QueueJobSlurmWith(Directives)

CreateEdited == CreateWith(Directives)

ScriptWrittenEdited == ScriptWrittenWith(Directives)

NextScript ==
    \/ QueueJobEdited
    \/ CreateEdited
    \/ Proceed
    \/ JobChanges
    \/ ScriptOpened
    \/ ScriptWrittenEdited

SpecScript == InitScript /\ [][NextScript]_vars

(***************************************************************************)
(* The status cache alone: one SlurmEnvironment on which refresh_info and   *)
(* the status accessors are called again and again, each refresh_info      *)
(* call's record keeping the squeue output it was given.                   *)
(***************************************************************************)
InitRefresh ==
    /\ backend = "slurm"
    /\ job = NoFlags
    /\ _jobs_info = EmptyDict
    /\ script_exists = FALSE
    /\ script_text = Truncated
    /\ lastCall = NoCall
    /\ listed = MaxJobs
    /\ NoRace

RefreshInfoHeard == RefreshWith(TRUE)

NextRefresh ==
    \/ RefreshInfoHeard
    \/ PendingJobs
    \/ RunningJobs
    \/ UnknownJobs
    \/ InProgressJobs
    \/ JobInProgress

SpecRefresh == InitRefresh /\ [][NextRefresh]_vars

(***************************************************************************)
(* Concurrent invocations: two processes, each with its own                *)
(* SlurmEnvironment (its own cache), run queue_job for the same job, one   *)
(* step of a statement of queue_job at a time.  They share what is outside *)
(* the process: the job's state on disk behind its predicates, the script  *)
(* file, and the Slurm queue, whose squeue listing is what the queue holds *)
(* at the moment it is asked.                                              *)
(***************************************************************************)
\* Largest number of queue_job calls one invocation makes.
MaxCalls == 2

\* The jobs the concurrent invocations are given: ready and not blocked.
ReadyJobs == { j \in JobStates : j.ready /\ ~j.blocked }

\* squeue lists each queued job named as the job once, pending or running.
RECURSIVE Copies(_, _)
Copies(line, n) == IF n = 0 THEN << >> ELSE Append(Copies(line, n - 1), line)

SchedulerAnswers(n) ==
    { [failed |-> FALSE, lines |-> OutputLines(Copies(line, n))] :
        line \in { <<"R", "-", "a">>, <<"P", "D", "-", "a">> } }

\* What `sbatch script` does to the queue: a zero exit status is one more
\* queued job, whatever the queue holds already.
sbatch_effect(n, rc) == IF rc = 0 THEN n + 1 ELSE n

\* What `scancel -n name` does to the queue: every job of that name goes.
scancel_effect(n, rc) == IF rc = 0 THEN 0 ELSE n

\* The queue after a step that took a call from the events `before` to the
\* record c: the command the step ran, if any, has acted on it.
QueueAfter(n, before, c) ==
    IF Len(c.events) = Len(before) THEN n
    ELSE IF c.events[Len(c.events)] = "sbatch" THEN sbatch_effect(n, c.exits[Len(c.exits)])
    ELSE IF c.events[Len(c.events)] = "scancel" THEN scancel_effect(n, c.exits[Len(c.exits)])
    ELSE n

\* The call of invocation w as the record the statements work on.
CallOf(w) ==
    [pc |-> w.pc, job |-> job, info |-> w.info, exists |-> script_exists,
     text |-> script_text, events |-> w.events, exits |-> w.exits,
     result |-> w.result, saw |-> w.saw, parsed |-> << >>]

\* Invocation w after a step left the call record c.
Advance(w, c) ==
    [w EXCEPT !.pc = c.pc, !.info = c.info, !.events = c.events,
              !.exits = c.exits, !.saw = c.saw, !.result = c.result]

InitRace ==
    /\ backend = "slurm"
    /\ job \in ReadyJobs
    /\ _jobs_info = EmptyDict
    /\ script_exists \in BOOLEAN
    /\ script_text \in IF script_exists THEN { Script(d) : d \in FixedDirectives } ELSE {Truncated}
    /\ lastCall = NoCall
    /\ listed = MaxListed
    /\ scheduler = 0
    /\ inflight \in [Invocations -> { [NotStarted EXCEPT !.force = f] : f \in BOOLEAN }]

\* Invocation p takes the next step of its queue_job call.
Statement(p) ==
    /\ inflight[p].result = "running"
    /\ \E directives \in FixedDirectives :
         \E c \in Steps(SlurmSteps, CallOf(inflight[p]), inflight[p].force, directives,
                        SchedulerAnswers(scheduler)) :
             /\ job' = c.job
             /\ script_exists' = c.exists
             /\ script_text' = c.text
             /\ scheduler' = QueueAfter(scheduler, inflight[p].events, c)
             /\ inflight' = [inflight EXCEPT ![p] = Advance(@, c)]
    /\ UNCHANGED <<backend, _jobs_info, lastCall, listed>>

\* Invocation p, whose call has returned, calls queue_job again on the same
\* environment, without force.
CallAgain(p) ==
    /\ inflight[p].result = "returned"
    /\ inflight[p].calls < MaxCalls
    /\ inflight' = [inflight EXCEPT ![p] =
                       [@ EXCEPT !.pc = At(1, "enter"), !.force = FALSE, !.saw = << >>,
                                 !.result = "running", !.calls = @ + 1]]
    /\ UNCHANGED <<backend, job, _jobs_info, script_exists, script_text,
                   lastCall, listed, scheduler>>

NextRace ==
    \/ \E p \in Invocations : Statement(p)
    \/ \E p \in Invocations : CallAgain(p)

SpecRace == InitRace /\ [][NextRace]_vars

(***************************************************************************)
(* Properties                                                              *)
(*                                                                         *)
(* A state with IsQueueJob is the state a queue_job call left behind when  *)
(* it raised or returned: lastCall.saw holds what the call read, job and   *)
(* _jobs_info what it left.                                                *)
(***************************************************************************)
Occurrences(ev, events) == Cardinality({ i \in 1..Len(events) : events[i] = ev })
HandedOff(events) == InList("sbatch", events) \/ InList("command", events)
IsQueueJob == lastCall.op = "queue_job" /\ lastCall.result # "running"
Mutators == {"reset", "scancel", "setup", "open", "write", "sbatch", "command"}
NoMutation(events) == \A i \in 1..Len(events) : events[i] \notin Mutators

\* The call read the predicate `name` and got v.
Saw(name, v) == InList(<<name, v>>, lastCall.saw)

\* The predicates a call read, in reading order.
ReadNames(saw) == [i \in 1..Len(saw) |-> saw[i][1]]
IsPrefix(s, t) == Len(s) <= Len(t) /\ \A i \in 1..Len(s) : s[i] = t[i]

\* C1: on both backends a queue_job call to which the job reports blocked
\* ends with the blocked error, whatever force is, and hands nothing to
\* sbatch or to the local command.
C1_BlockedNeverSubmitted ==
    (lastCall.op = "queue_job" /\ Saw("blocked", TRUE)) =>
        /\ lastCall.result = "Blocked"
        /\ ~HandedOff(lastCall.events)

\* A forced call on a blocked job that is otherwise ready and complete was
\* refused on the cluster backend.
C1_Witness ==
    /\ IsQueueJob /\ backend = "slurm" /\ lastCall.force
    /\ job.blocked /\ job.ready /\ job.complete
    /\ Saw("blocked", TRUE) /\ lastCall.result = "Blocked"

\* C2: on both backends a queue_job call to which the job reports not
\* blocked and then not ready ends with the not-ready error for both values
\* of force and whatever complete, failed and the cached status are, before
\* anything is run: no squeue (a never-populated cache stays so), no reset,
\* cancel, setup, script write or hand-off, and the call has changed none of
\* the job's predicates.
C2_NotReadyFailsFast ==
    (IsQueueJob /\ Saw("blocked", FALSE) /\ Saw("ready", FALSE)) =>
        /\ lastCall.result = "NotReady"
        /\ lastCall.events = << >>
        /\ job = lastCall.untouched
        /\ (~lastCall.prePopulated => DOMAIN _jobs_info = {})

\* A forced call on a not-ready, complete, failed job was refused on the
\* cluster backend while the cache had never been populated.
C2_Witness ==
    /\ IsQueueJob /\ backend = "slurm" /\ lastCall.force /\ lastCall.quiet
    /\ Saw("ready", FALSE) /\ ~job.ready /\ ~job.blocked
    /\ job.complete /\ job.failed
    /\ ~lastCall.prePopulated
    /\ lastCall.result = "NotReady"

Positions(ev, events) == { i \in 1..Len(events) : events[i] = ev }
Precedes(a, b, events) ==
    \A i \in Positions(a, events), k \in Positions(b, events) : i < k

\* The cache reports the job pending or running (SlurmJob.in_progress on a
\* populated cache).
CachedInProgress ==
    /\ DOMAIN _jobs_info # {}
    /\ InList(JobName, _jobs_info["pending"]) \/ InList(JobName, _jobs_info["running"])

\* C3 (as claimed): for a ready, non-blocked, complete job, queue_job without
\* force ends with the already-complete error, and with force calls reset()
\* exactly once and reaches the hand-off, whatever the in-progress status
\* and failed() are.  Calls that die in squeue or in the script write are
\* left out, and so are calls during which another process changed the job
\* or its script, so that only the number of resets of a call left alone is
\* in question.
C3_CompleteForcedResetsOnce ==
    (IsQueueJob /\ lastCall.quiet /\ ~lastCall.untouched.blocked
       /\ lastCall.untouched.ready /\ lastCall.untouched.complete) =>
        /\ ~lastCall.force => lastCall.result = "AlreadyComplete"
        /\ (lastCall.force /\ lastCall.result \notin ExecutionErrors) =>
              /\ Occurrences("reset", lastCall.events) = 1
              /\ HandedOff(lastCall.events)

\* C4 (as claimed): on the cluster backend a forced queue_job on a ready,
\* non-blocked job the cache reports pending or running runs scancel exactly
\* once, before every reset() of the call and before sbatch (calls during
\* which another process changed the job or its script are left out).
C4_CancelPrecedesEveryReset ==
    (IsQueueJob /\ backend = "slurm" /\ lastCall.force /\ lastCall.quiet
       /\ ~lastCall.untouched.blocked /\ lastCall.untouched.ready /\ CachedInProgress) =>
        /\ Occurrences("scancel", lastCall.events) = 1
        /\ Precedes("scancel", "reset", lastCall.events)
        /\ Precedes("scancel", "sbatch", lastCall.events)

\* C5: a queue_job call that ends with one of the five rejections ran no
\* reset(), no scancel, no setup(), no script write and no hand-off, and
\* changed none of the job's predicates: the job is as it was when the call
\* started, apart from what other processes did to it meanwhile.
C5_RejectionMutatesNothing ==
    (IsQueueJob /\ lastCall.result \in Rejections) =>
        /\ NoMutation(lastCall.events)
        /\ job = lastCall.untouched

\* An unforced call on a job that another process marked failed while the
\* call was waiting for squeue was refused on the cluster backend; the job
\* is still failed.
C5_Witness ==
    /\ IsQueueJob /\ backend = "slurm" /\ ~lastCall.force
    /\ lastCall.result = "AlreadyFailed"
    /\ lastCall.events = <<"squeue">>
    /\ ~lastCall.quiet /\ job.failed

\* The order in which queue_job reads the conditions, on either backend.
CheckOrder ==
    IF backend = "local" THEN <<"blocked", "ready", "complete", "failed">>
    ELSE <<"blocked", "ready", "complete", "in_progress", "failed", "exists">>

\* The first of the five conditions, in the order blocked, not ready,
\* complete, in progress (cluster backend only), failed, that holds of the
\* job as the call read it; "none" when none holds.  In progress is what the
\* cache says.
FirstCondition ==
    IF Saw("blocked", TRUE) THEN "Blocked"
    ELSE IF Saw("ready", FALSE) THEN "NotReady"
    ELSE IF Saw("complete", TRUE) THEN "AlreadyComplete"
    ELSE IF backend = "slurm" /\ CachedInProgress THEN "AlreadyInProgress"
    ELSE IF Saw("failed", TRUE) THEN "AlreadyFailed"
    ELSE "none"

\* C6: a queue_job call reads the conditions in the order blocked, ready,
\* complete, in progress, failed (the local backend has no in-progress
\* check), each once, and stops reading at the one it is refused for; an
\* unforced call whose status query did not itself fail reports the error
\* of the first condition that holds in that order, and passes the checks
\* exactly when none holds.
C6_FirstConditionDecides ==
    /\ lastCall.op = "queue_job" => IsPrefix(ReadNames(lastCall.saw), CheckOrder)
    /\ (IsQueueJob /\ ~lastCall.force /\ lastCall.result # "StatusQueryError") =>
          IF FirstCondition = "none"
          THEN lastCall.result \notin Rejections
          ELSE /\ lastCall.result = FirstCondition
               /\ lastCall.saw[Len(lastCall.saw)][2] = (FirstCondition # "NotReady")

\* A ready job both in progress and failed was refused as in progress,
\* before failed() was read.
C6_Witness ==
    /\ IsQueueJob /\ backend = "slurm" /\ ~lastCall.force
    /\ job.ready /\ ~job.blocked /\ ~job.complete /\ job.failed
    /\ CachedInProgress
    /\ lastCall.quiet /\ lastCall.result = "AlreadyInProgress"
    /\ ReadNames(lastCall.saw) = <<"blocked", "ready", "complete", "in_progress">>

\* C7 (as claimed): a forced queue_job on a job that is not blocked never
\* ends with the not-ready, already-complete, already-in-progress or
\* already-failed error, and reaches the hand-off.
C7_ForceResolvesAllFour ==
    (IsQueueJob /\ lastCall.force /\ Saw("blocked", FALSE)) =>
        /\ lastCall.result \notin {"NotReady", "AlreadyComplete", "AlreadyInProgress",
                                   "AlreadyFailed"}
        /\ HandedOff(lastCall.events)

\* C7 (amended): force resolves the already-complete, already-in-progress
\* and already-failed rejections and not the not-ready one.  A forced
\* queue_job on a job that is not blocked and ready is never refused: it
\* ends in the hand-off and returns, or in the error raised by the status
\* query (before anything is cancelled or written, and before failed() is
\* read) or by the generation of a missing script (nothing is handed off);
\* on a job that is not blocked and not ready it ends with the not-ready
\* error, and on a blocked job with the blocked error.
C7_ForceResolvesAllButNotReady ==
    /\ (IsQueueJob /\ lastCall.force /\ Saw("ready", TRUE)) =>
          /\ lastCall.result \in {"returned"} \cup ExecutionErrors
          /\ lastCall.result = "returned" <=> HandedOff(lastCall.events)
          /\ lastCall.result = "StatusQueryError" =>
                \A i \in 1..Len(lastCall.events) :
                    lastCall.events[i] \in {"squeue", "reset"} /\ ~Saw("failed", TRUE)
          /\ lastCall.result = "OSError" => Saw("exists", FALSE)
    /\ (IsQueueJob /\ lastCall.force /\ Saw("ready", FALSE)) =>
          lastCall.result = "NotReady"
    /\ (IsQueueJob /\ lastCall.force /\ Saw("blocked", TRUE)) =>
          lastCall.result = "Blocked"

\* A forced call on a ready job that was complete, failed and in progress
\* was handed to sbatch.
C7_Witness ==
    /\ IsQueueJob /\ backend = "slurm" /\ lastCall.force /\ lastCall.quiet
    /\ lastCall.untouched.ready /\ ~lastCall.untouched.blocked
    /\ lastCall.untouched.complete /\ lastCall.untouched.failed /\ CachedInProgress
    /\ lastCall.result = "returned" /\ InList("sbatch", lastCall.events)

ListAccessors == {"pending_jobs", "running_jobs", "unknown_jobs"}
StatusQueries == ListAccessors \cup {"in_progress_jobs", "in_progress"}
KeyOf(op) ==
    IF op = "pending_jobs" THEN "pending"
    ELSE IF op = "running_jobs" THEN "running" ELSE "unknown"

\* C8: once the cache is populated, a step of queue_job (forced or not,
\* accepted or refused), of cancel_by_name / cancel_job or of a status query
\* leaves it as it was, and the query returns what was cached before the
\* step; only refresh_info replaces it.
C8_OnlyRefreshChangesCache ==
    [][ (DOMAIN _jobs_info # {} /\ lastCall'.op # "refresh_info") =>
          /\ _jobs_info' = _jobs_info
          /\ lastCall'.op \in ListAccessors =>
                lastCall'.ret = _jobs_info[KeyOf(lastCall'.op)]
          /\ lastCall'.op = "in_progress_jobs" =>
                lastCall'.ret = _jobs_info["pending"] \o _jobs_info["running"]
          /\ lastCall'.op = "in_progress" =>
                lastCall'.ret = (InList(JobName, _jobs_info["pending"])
                                   \/ InList(JobName, _jobs_info["running"]))
      ]_vars

\* scancel was run for the job by name and the cache, populated before the
\* call, still lists the job as running.
C8_Witness ==
    /\ lastCall.op = "cancel_by_name" /\ lastCall.ret = JobName
    /\ lastCall.events = <<"scancel">>
    /\ lastCall.prePopulated
    /\ InList(JobName, _jobs_info["running"])

\* C9: a status accessor or queue_job call runs squeue only when the cache
\* has never been populated, and then once; with a populated cache, the one
\* of an empty listing included, it runs none.
C9_SqueueOnlyWhenNeverPopulated ==
    (lastCall.op \in StatusQueries \cup {"queue_job"}) =>
        /\ lastCall.prePopulated => ~InList("squeue", lastCall.events)
        /\ Occurrences("squeue", lastCall.events) <= 1
        /\ (lastCall.op \in StatusQueries /\ ~lastCall.prePopulated) =>
              lastCall.events = <<"squeue">>

\* in_progress_jobs was answered from a cache populated by an empty listing,
\* without running squeue.
C9_Witness ==
    /\ lastCall.op = "in_progress_jobs" /\ lastCall.prePopulated
    /\ _jobs_info = NewTable
    /\ lastCall.events = << >> /\ lastCall.result = "returned"
    /\ lastCall.ret = << >>

\* The classification of a listing read off the lines directly: the text up
\* to the delimiter is the state code, the text after it the job name.
Dash(line) == CHOOSE i \in 1..Len(line) : line[i] = "-"
CodeOf(line) == SubSeq(line, 1, Dash(line) - 1)
NameOf(line) == SubSeq(line, Dash(line) + 1, Len(line))
KindOf(line) ==
    IF CodeOf(line) = <<"R">> THEN "running"
    ELSE IF CodeOf(line) = <<"P", "D">> THEN "pending" ELSE "unknown"

RECURSIVE NamesOfKind(_, _)
NamesOfKind(k, lines) ==
    IF lines = << >> THEN << >>
    ELSE IF Head(lines) # << >> /\ KindOf(Head(lines)) = k
         THEN <<NameOf(Head(lines))>> \o NamesOfKind(k, Tail(lines))
         ELSE NamesOfKind(k, Tail(lines))

\* C10: after every refresh that returned (refresh_info itself, or the one
\* jobs_info makes on a never-populated cache) the cache has exactly the
\* three categories, each holding the names of the latest listing's lines
\* of that category in listing order: nothing of the previous cache is left.
C10_RefreshReplacesCache ==
    Parsed(lastCall.events, lastCall.result) =>
        /\ DOMAIN _jobs_info = {"running", "pending", "unknown"}
        /\ \A k \in DOMAIN _jobs_info : _jobs_info[k] = NamesOfKind(k, lastCall.parsed)

\* refresh_info returned on a cache that held the job; the latest listing
\* holds only the other job, and the job is in no category any more.
C10_Witness ==
    /\ lastCall.op = "refresh_info" /\ lastCall.result = "returned"
    /\ lastCall.prePopulated /\ lastCall.preHeld
    /\ JobName \notin NamesIn(_jobs_info)
    /\ OtherName \in NamesIn(_jobs_info)

IsRefresh == lastCall.op = "refresh_info"

\* A listing line read as <status-code>-<job-name>: the code is the text
\* before the first delimiter, the name everything after it (a job name may
\* itself hold the delimiter, a state code does not).
FirstDash(line) ==
    CHOOSE i \in 1..Len(line) : line[i] = "-" /\ \A j \in 1..(i - 1) : line[j] # "-"
HasForm(line) ==
    \E i \in 2..(Len(line) - 1) : line[i] = "-" /\ \A j \in 1..(i - 1) : line[j] # "-"
FormKind(line) ==
    IF SubSeq(line, 1, FirstDash(line) - 1) = <<"R">> THEN "running"
    ELSE IF SubSeq(line, 1, FirstDash(line) - 1) = <<"P", "D">> THEN "pending"
    ELSE "unknown"
FormName(line) == SubSeq(line, FirstDash(line) + 1, Len(line))

\* The names of the lines of category k among the lines that have the form,
\* in listing order.
RECURSIVE Classified(_, _)
Classified(k, lines) ==
    IF lines = << >> THEN << >>
    ELSE IF HasForm(Head(lines)) /\ FormKind(Head(lines)) = k
         THEN <<FormName(Head(lines))>> \o Classified(k, Tail(lines))
         ELSE Classified(k, Tail(lines))

AllHaveForm(lines) == \A i \in 1..Len(lines) : lines[i] = << >> \/ HasForm(lines[i])

\* C11 (as claimed): a refresh_info call whose squeue output holds only blank
\* lines and lines of the form <status-code>-<job-name> returns, and each
\* category of the cache holds the names of the lines of that category, one
\* entry per line, in listing order.
C11_EveryLineClassified ==
    (IsRefresh /\ lastCall.output # << >> /\ AllHaveForm(lastCall.output)) =>
        /\ lastCall.result = "returned"
        /\ \A k \in {"running", "pending", "unknown"} :
              _jobs_info[k] = Classified(k, lastCall.output)

\* C12 (as claimed): a refresh_info call whose squeue output holds a line
\* that has not the form returns, and the cache it leaves holds every line
\* of the output that has the form, the others being skipped.
C12_MalformedLineSkipped ==
    (IsRefresh /\ lastCall.output # << >> /\ ~AllHaveForm(lastCall.output)) =>
        /\ lastCall.result = "returned"
        /\ \A k \in {"running", "pending", "unknown"} :
              _jobs_info[k] = Classified(k, lastCall.output)

\* A step of the call in flight, or the first step of a new call (every
\* step reads a predicate, runs something, raises or returns).
CallStep ==
    <<lastCall'.saw, lastCall'.events, lastCall'.result>>
        # <<lastCall.saw, lastCall.events, lastCall.result>>

\* The parts of create() that change the script file: the open, the
\* write() calls and the close.
Touching == {"open", "write", "close"}

\* The part of its statement the call that takes a step is at: the call in
\* flight, or a call just made, at the start of its first statement.
StepPart == IF lastCall.result = "running" THEN lastCall.pc.part ELSE "enter"

\* C13: a SlurmEnvironment.queue_job call that finds the script file in
\* place neither opens nor writes it, and no step of a call other than the
\* open and the write() calls of create() changes the file or its text, so
\* that the script in place (be it the empty or the cut-short one a failed
\* write left) is what an accepted call submits, whatever the job's directives and command are by
\* then; an accepted call that finds no file writes it exactly once, and
\* when no other process touched the job or the file meanwhile the file
\* holds the job's directives and command of that call.  No step of
\* queue_job removes the file, so over any sequence of calls the program
\* writes it at most once.
C13_ScriptWrittenOnce ==
    [][ (backend = "slurm" /\ lastCall'.op = "queue_job" /\ CallStep) =>
          /\ script_exists => script_exists'
          /\ StepPart \notin Touching =>
                (script_exists' = script_exists /\ script_text' = script_text)
          /\ InList(<<"exists", TRUE>>, lastCall'.saw) =>
                /\ StepPart \notin Touching
                /\ ~InList("open", lastCall'.events) /\ ~InList("write", lastCall'.events)
          /\ Occurrences("write", lastCall'.events) <= 1
          /\ lastCall'.result = "returned" =>
                /\ InList("sbatch", lastCall'.events)
                /\ script_exists'
                /\ InList(<<"exists", FALSE>>, lastCall'.saw) =>
                      /\ Occurrences("write", lastCall'.events) = 1
                      /\ lastCall'.quiet => script_text' = Script(lastCall'.directives)
      ]_vars

\* An accepted call handed the existing script to sbatch without writing it,
\* although the job's directives were no longer the ones in the file.
C13_Witness ==
    /\ IsQueueJob /\ backend = "slurm" /\ lastCall.result = "returned"
    /\ InList("sbatch", lastCall.events) /\ ~InList("write", lastCall.events)
    /\ lastCall.quiet
    /\ script_exists /\ script_text # Script(lastCall.directives) /\ script_text # Truncated

\* C14 (as claimed): in every queue_job call that reaches the hand-off, on
\* either backend, setup() was called in that call before the hand-off
\* (calls during which another process wrote the script are left out).
C14_SetupBeforeEveryHandOff ==
    (IsQueueJob /\ lastCall.quiet /\ HandedOff(lastCall.events)) =>
        /\ InList("setup", lastCall.events)
        /\ Precedes("setup", "sbatch", lastCall.events)
        /\ Precedes("setup", "command", lastCall.events)

\* C15 (as claimed): every cancellation and status method of the local
\* backend fails with the unsupported-operation error; none returns a value.
C15_LocalAlwaysUnsupported ==
    lastCall.op \in LocalOps => lastCall.result = "Unsupported"

\* C16 (as claimed): a queue_job or cancel_by_name call in which an external
\* command exited with a non-zero status does not return normally.
C16_NonZeroExitPropagated ==
    (lastCall.op \in {"queue_job", "cancel_by_name"}
       /\ \E i \in 1..Len(lastCall.exits) : lastCall.exits[i] # 0) =>
        lastCall.result # "returned"

\* C17 (as claimed): a queue_job call that passed the checks and then failed
\* in the script write, no other process changing the job meanwhile, leaves
\* complete() and failed() as they were when the call started, for both
\* values of force.
C17_FailedHandOffKeepsPredicates ==
    (IsQueueJob /\ lastCall.quiet /\ lastCall.result = "OSError") =>
        /\ job.complete = lastCall.untouched.complete
        /\ job.failed = lastCall.untouched.failed

\* The job is in the cache under a state code other than R and PD only.
CachedUnknownOnly ==
    /\ DOMAIN _jobs_info # {}
    /\ InList(JobName, _jobs_info["unknown"])
    /\ ~CachedInProgress

\* An unforced queue_job call on the cluster backend to which the job
\* reported ready and not complete, and not failed if it came to ask, while
\* the cache lists the job under another state code only.
UnknownOnlyCall ==
    /\ IsQueueJob /\ backend = "slurm" /\ ~lastCall.force /\ CachedUnknownOnly
    /\ Saw("blocked", FALSE) /\ Saw("ready", TRUE) /\ Saw("complete", FALSE)
    /\ ~Saw("failed", TRUE)

\* C19 (as claimed): SlurmJob.in_progress() answers true exactly when the
\* job's name is in the cached pending or running list, and an unforced
\* queue_job on a ready, non-blocked, not complete, not failed job that the
\* cache lists under another state code only is accepted and submits the
\* job, with no scancel.
C19_UnknownAlwaysSubmitted ==
    /\ (lastCall.op = "in_progress" /\ lastCall.result = "returned") =>
          (lastCall.ret <=> CachedInProgress)
    /\ UnknownOnlyCall =>
          /\ lastCall.result = "returned"
          /\ InList("sbatch", lastCall.events)
          /\ ~InList("scancel", lastCall.events)

\* C19 (amended): SlurmJob.in_progress() answers true exactly when the job's
\* name is in the cached pending or running list; an unforced queue_job on
\* a ready, non-blocked, not complete, not failed job that the cache lists
\* under another state code only reads in_progress() false and failed()
\* false, is not refused and runs no scancel; it hands the job to sbatch
\* and returns, or, having found no script, ends with the error open() or
\* a write raised in create(), with nothing handed to sbatch.
C19_UnknownIsNotInProgress ==
    /\ (lastCall.op = "in_progress" /\ lastCall.result = "returned") =>
          (lastCall.ret <=> CachedInProgress)
    /\ UnknownOnlyCall =>
          /\ lastCall.result \in {"returned", "OSError"}
          /\ Saw("in_progress", FALSE) /\ Saw("failed", FALSE)
          /\ ~InList("scancel", lastCall.events)
          /\ lastCall.result = "returned" <=> InList("sbatch", lastCall.events)
          /\ lastCall.result = "OSError" =>
                (Saw("exists", FALSE) /\ InList("setup", lastCall.events))

\* An unforced call on a job the cache lists under another state code only
\* was handed to sbatch, and no scancel was run.
C19_Witness ==
    /\ UnknownOnlyCall
    /\ lastCall.quiet /\ lastCall.result = "returned"
    /\ InList("sbatch", lastCall.events) /\ ~InList("scancel", lastCall.events)

\* The predicates of a job that can be run: not blocked, ready, neither
\* complete nor failed.
Runnable == [blocked |-> FALSE, ready |-> TRUE, complete |-> FALSE, failed |-> FALSE]

\* C20: whenever a queue_job call, on either backend and with either value of
\* force, has handed the job to sbatch or to the local command, the job had
\* reported blocked() false and ready() true to it, and complete() and
\* failed() false unless the call, forced, reset the job after the answer;
\* and when the predicates are pure (no other process has changed the job
\* since the call started), the job reports blocked() false, ready() true,
\* complete() false and failed() false at the hand-off and until the call
\* returns.
C20_HandOffOnlyWhenRunnable ==
    (lastCall.op = "queue_job" /\ HandedOff(lastCall.events)) =>
        /\ Saw("blocked", FALSE) /\ Saw("ready", TRUE)
        /\ \A p \in {"complete", "failed"} :
              /\ Saw(p, TRUE) \/ Saw(p, FALSE)
              /\ Saw(p, TRUE) =>
                    /\ lastCall.force
                    /\ \E i \in Positions("reset", lastCall.events) :
                           \A k \in Positions("sbatch", lastCall.events)
                                      \cup Positions("command", lastCall.events) : i < k
        /\ lastCall.quiet => job = Runnable

\* A forced call of the cluster backend on a job that was complete and
\* failed is at the return from sbatch, no other process having changed the
\* job, and the job reports neither any more.
C20_Witness ==
    /\ lastCall.op = "queue_job" /\ backend = "slurm" /\ lastCall.force
    /\ lastCall.result = "running" /\ lastCall.pc.part = "return"
    /\ lastCall.quiet /\ lastCall.untouched.complete /\ lastCall.untouched.failed
    /\ InList("sbatch", lastCall.events)
    /\ job = Runnable

\* The cache of invocation p lists the job as pending or running.
ListedBy(p) ==
    /\ DOMAIN inflight[p].info # {}
    /\ InList(JobName, inflight[p].info["pending"])
         \/ InList(JobName, inflight[p].info["running"])

Finished(p) == inflight[p].result # "running"

\* How many times the cache `info` lists the job as pending or running.
Held(info) ==
    IF DOMAIN info = {} THEN 0
    ELSE Len(SelectSeq(info["pending"] \o info["running"], LAMBDA n : n = JobName))

\* The commands the calls of an invocation ran through os.system, in order,
\* and how many of its sbatch commands exited with status 0.
Commands(events) == SelectSeq(events, LAMBDA e : e \in {"scancel", "sbatch"})
Handoffs(w) ==
    Cardinality({ i \in 1..Len(w.exits) : Commands(w.events)[i] = "sbatch" /\ w.exits[i] = 0 })

Other(p) == CHOOSE q \in Invocations : q # p

\* C18: nothing de-duplicates the submissions of concurrent invocations.  An
\* invocation asks squeue at most once over all its calls, before its first
\* hand-off, so that as long as nobody has cancelled, its cache lists the
\* job no more often than the other invocation has submitted it, and never
\* for its own submissions; and a further unforced call of an invocation
\* whose previous call was accepted is decided by that cache alone: it is
\* accepted again unless the cache listed the job, whatever the queue holds,
\* and is always accepted again when the invocation never had to cancel.
C18_NoDeduplication ==
    \A p \in Invocations :
        /\ Occurrences("squeue", inflight[p].events) <= 1
        /\ (\A q \in Invocations : ~InList("scancel", inflight[q].events)) =>
              Held(inflight[p].info) <= Handoffs(inflight[Other(p)])
        /\ (inflight[p].calls > 1 /\ Finished(p)) =>
              inflight[p].result = IF ListedBy(p) THEN "AlreadyInProgress" ELSE "returned"
        /\ (inflight[p].calls > 1 /\ Finished(p)
              /\ ~InList("scancel", inflight[p].events)) =>
              inflight[p].result = "returned"

\* Neither invocation forced, reset or cancelled anything; both were
\* accepted, the first one twice on the same environment, whose cache does
\* not list the job, and the queue holds the job three times.
C18_Witness ==
    /\ \A p \in Invocations :
          /\ inflight[p].result = "returned"
          /\ ~InList("scancel", inflight[p].events)
          /\ ~InList("reset", inflight[p].events)
    /\ inflight["first"].calls = 2 /\ Handoffs(inflight["first"]) = 2
    /\ inflight["second"].calls = 1 /\ Handoffs(inflight["second"]) = 1
    /\ ~ListedBy("first")
    /\ scheduler = 3

\* C21: a step of refresh_info, or of an accessor refreshing a
\* never-populated cache, that fails (squeue fails, or a line cannot be
\* parsed) leaves the cache exactly as it was before the step, with nothing
\* of the lines parsed before the failure in it; and an accessor called on a
\* cache that is still never-populated runs squeue again.
C21_FailedRefreshKeepsCache ==
    [][ /\ lastCall'.result = "StatusQueryError" => _jobs_info' = _jobs_info
        /\ (DOMAIN _jobs_info = {} /\ lastCall'.op \in StatusQueries) =>
              InList("squeue", lastCall'.events)
      ]_vars

\* refresh_info failed on a listing whose first line parses and whose second
\* does not; the cache, populated before the call, holds the other job only
\* and nothing of the first line.
C21_Witness ==
    /\ IsRefresh /\ lastCall.result = "StatusQueryError"
    /\ lastCall.output = <<<<"R", "-", "a">>, <<"a">>, << >>>>
    /\ lastCall.prePopulated
    /\ _jobs_info = [running |-> << >>, pending |-> <<OtherName>>, unknown |-> << >>]

=============================================================================
